---------------------------- MODULE Spec2Model ----------------------------
(***************************************************************************)
(* Model of the gateway bootstrap in src/src/index.ts.                     *)
(*                                                                         *)
(* The file holds two programs: the plain variant (lines 1-24), which      *)
(* validates the environment and calls createGatewayConnection, and the    *)
(* metrics variant (lines 26-206), which validates the environment, starts *)
(* the shards, the guild-count poller and the optional metrics server.     *)
(*                                                                         *)
(* JavaScript strings are tuples of one-character strings, so that         *)
(* parseInt and the /BEARER\s*/i replacement are computed character by     *)
(* character.  The value `undefined` is the one-element tuple below, which *)
(* no string of characters equals.                                         *)
(***************************************************************************)
EXTENDS Integers, Sequences, FiniteSets, TLC

VARIABLES
    variant,              \* which of the two programs of index.ts runs
    env,                  \* process.env, read once at startup
    shardCount,           \* const shardCount (line 117)
    pc,                   \* position of the module's top-level code
    status,               \* "running", "error" (top-level throw), "exited", "crashed"
    errorMessage,         \* message of the Error thrown at top level
    PORT,                 \* let PORT (lines 9-14, 43-48)
    METRICS_PORT,         \* let METRICS_PORT (lines 49-56)
    clients,              \* GatewayClient objects constructed, in order
    connectCalls,         \* number of connect() calls per shard id
    connectState,         \* state of each shard's connect() promise
    shards,               \* const shards: GatewayClient[] (line 119)
    loggedErrors,         \* uncaught errors that reached the logger's handler
    pollerTimers,         \* pending setTimeout(every15Seconds) timers
    ticks,                \* runs of every15Seconds so far (saturates at MaxTicks)
    guildsGauge,          \* value of the guild_count gauge
    guildCount,           \* let guildCount of the latest run of every15Seconds
    pending,              \* shards whose getGuildCount() of the latest run is unresolved
    eventsCounter,        \* gateway_events_count, per label
    redisCommandsCounter, \* redis_commands_count, per label
    invocations,          \* how often the library invoked onGatewayEvent, per name
    listenQueue,          \* metricsServer.listen calls not yet settled
    listeners,            \* addresses the metrics server is bound to
    response              \* the HTTP response produced by the step just taken, if any

vars == <<variant, env, shardCount, pc, status, errorMessage, PORT, METRICS_PORT,
          clients, connectCalls, connectState, shards, loggedErrors, pollerTimers,
          ticks, guildsGauge, guildCount, pending, eventsCounter,
          redisCommandsCounter, invocations, listenQueue, listeners, response>>

----------------------------------------------------------------------------
(* Bounds of the model. *)

MaxShardCount == 2
MaxTicks == 2
MaxGuilds == 1
MaxEvents == 2
MaxSpaces == 1

----------------------------------------------------------------------------
(* JavaScript values. *)

undefined == <<"undefined">>

NaN == [kind |-> "NaN", n |-> 0]
NumUndefined == [kind |-> "undefined", n |-> 0]
Num(n) == [kind |-> "number", n |-> n]

\* ToBoolean of a string or undefined: undefined and "" are falsy.
TruthyStr(s) == s # undefined /\ s # <<>>

\* Mutant: only undefined is falsy, NaN passes.
TruthyNum_NaNPasses(v) == v.kind # "undefined"

\* ToBoolean of a number or undefined: undefined, NaN and 0 are falsy.
TruthyNum(v) == v.kind = "number" /\ v.n # 0

IsWhite(c) == c \in {" ", "\t"}

IsDigit(c) == c \in {"0", "1", "2", "3", "4", "5", "6", "7", "8", "9"}

DigitVal(c) ==
    CASE c = "0" -> 0 [] c = "1" -> 1 [] c = "2" -> 2 [] c = "3" -> 3
      [] c = "4" -> 4 [] c = "5" -> 5 [] c = "6" -> 6 [] c = "7" -> 7
      [] c = "8" -> 8 [] c = "9" -> 9

Rest(s, i) == SubSeq(s, i, Len(s))

RECURSIVE SkipWhite(_)
SkipWhite(s) ==
    IF s # <<>> /\ IsWhite(Head(s)) THEN SkipWhite(Tail(s)) ELSE s

RECURSIVE DigitRun(_)
DigitRun(s) ==
    IF s # <<>> /\ IsDigit(Head(s)) THEN <<Head(s)>> \o DigitRun(Tail(s)) ELSE <<>>

RECURSIVE DecimalValue(_)
DecimalValue(ds) ==
    IF ds = <<>> THEN 0
    ELSE 10 * DecimalValue(SubSeq(ds, 1, Len(ds) - 1)) + DigitVal(ds[Len(ds)])

\* parseInt(string) with no radix: leading white space is skipped, an optional
\* sign is read, then the longest run of decimal digits; the rest of the string
\* is ignored.  No digits gives NaN.  undefined is first converted to the
\* string "undefined", which gives NaN.  parseInt never throws.
ParseInt(s) ==
    IF s = undefined THEN NaN
    ELSE LET t == SkipWhite(s)
             neg == t # <<>> /\ Head(t) = "-"
             u == IF t # <<>> /\ Head(t) \in {"-", "+"} THEN Tail(t) ELSE t
             ds == DigitRun(u)
         IN  IF ds = <<>> THEN NaN
             ELSE Num(IF neg THEN 0 - DecimalValue(ds) ELSE DecimalValue(ds))

\* Whether the call parseInt(s) inside the try block raises an exception.
ParseIntThrows(s) == FALSE


ToLower(c) ==
    CASE c = "B" -> "b" [] c = "E" -> "e" [] c = "A" -> "a" [] c = "R" -> "r"
      [] OTHER -> c

LowerCase(s) == [i \in 1..Len(s) |-> ToLower(s[i])]

bearer == <<"b", "e", "a", "r", "e", "r">>

\* Whether /BEARER/i matches s at position i.
BearerAt(s, i) ==
    i + Len(bearer) - 1 <= Len(s)
    /\ LowerCase(SubSeq(s, i, i + Len(bearer) - 1)) = bearer

\* Length of the run of white space of s that starts at position i (the greedy \s*).
RECURSIVE WhiteRun(_, _)
WhiteRun(s, i) ==
    IF i <= Len(s) /\ IsWhite(s[i]) THEN 1 + WhiteRun(s, i + 1) ELSE 0

\* s.replace(/BEARER\s*/i, ""): the leftmost match, wherever it is in s, is
\* removed; without a match s is returned.
ReplaceBearer(s) ==
    LET at == {i \in 1..Len(s) : BearerAt(s, i)}
    IN  IF at = {} THEN s
        ELSE LET i == CHOOSE j \in at : \A k \in at : j <= k
                 e == i + Len(bearer) + WhiteRun(s, i + Len(bearer))
             IN  SubSeq(s, 1, i - 1) \o Rest(s, e)

\* request.headers.authorization?.replace(...): undefined when the header is absent.
StrippedAuthorization(authorization) ==
    IF authorization = undefined THEN undefined ELSE ReplaceBearer(authorization)

----------------------------------------------------------------------------
(* Configuration read from the environment. *)

HOST == env.REDIS_HOST
PORT_string == env.REDIS_PORT
TOKEN == env.DISCORD_TOKEN
METRICS_PORT_string == env.METRICS_PORT
METRICS_HOST == env.METRICS_HOST
METRICS_AUTH == env.METRICS_AUTH

\* Mutant: the logger is left at its default, exiting on an uncaught error.
exitOnError_Default == TRUE

\* The logger's exception handling (winston console transport and logger options).
handleExceptions == TRUE
exitOnError == FALSE

\* What becomes of the process when an error reaches no handler of the program
\* after the logger exists (an unhandled promise rejection is raised as an
\* uncaught exception by the runtime of the image, node:17): the logger's
\* transport handles it and the process exits only if exitOnError.
UncaughtOutcome ==
    IF handleExceptions /\ ~exitOnError THEN "running" ELSE "crashed"

EventNames == {"GUILD_CREATE", "MESSAGE_CREATE"}
CommandNames == {"hget"}

ShardIds == 0..(MaxShardCount - 1)

\* The address fastify binds when listen is given a port only.
defaultAddress == <<"l", "o", "c", "a", "l", "h", "o", "s", "t">>

----------------------------------------------------------------------------
(* The environments the model starts from. *)

HostValues == {undefined, <<>>, <<"h">>}
PortValues == {undefined, <<>>, <<"6", "3">>, <<"a">>, <<"6", "a">>}
TokenValues == {undefined, <<>>, <<"t">>}
MetricsPortValues == {undefined, <<"a">>, <<"9", "1">>, <<"0">>}
MetricsHostValues == {undefined, <<"h">>}
MetricsAuthValues == {undefined, <<>>, <<"s">>}

Unconfigured == <<undefined, undefined, undefined>>
Configured == <<(<<"9", "1">>), (<<"h">>), (<<"s">>)>>

EnvRecord(h, p, t, m) ==
    [REDIS_HOST |-> h, REDIS_PORT |-> p, DISCORD_TOKEN |-> t,
     METRICS_PORT |-> m[1], METRICS_HOST |-> m[2], METRICS_AUTH |-> m[3]]

Baseline(m) == EnvRecord(<<"h">>, <<"6", "3">>, <<"t">>, m)

Environments ==
    \* every combination of the required variables, metrics server not configured
    { EnvRecord(h, p, t, Unconfigured) :
        h \in HostValues, p \in PortValues, t \in TokenValues }
    \cup
    \* a required variable absent or empty, metrics server configured
    { EnvRecord(h, pt[1], pt[2], Configured) :
        h \in HostValues,
        pt \in {x \in PortValues \X TokenValues :
                   x[1] \in {undefined, <<>>} \/ x[2] \in {undefined, <<>>}} }
    \cup
    \* every combination of the metrics variables, required variables valid
    { Baseline(<<mp, mh, ma>>) :
        mp \in MetricsPortValues, mh \in MetricsHostValues, ma \in MetricsAuthValues }

\* The Authorization headers a client may send: optional leading text, an
\* optional scheme word in either case, white space, a token.
RECURSIVE Spaces(_)
Spaces(n) == IF n = 0 THEN <<>> ELSE <<" ">> \o Spaces(n - 1)

Headers ==
    {undefined} \cup
    { pre \o scheme \o Spaces(w) \o token :
        pre \in {<<>>, <<"s">>},
        scheme \in {<<>>, <<"B", "e", "a", "r", "e", "r">>,
                    <<"b", "E", "A", "R", "E", "R">>},
        w \in 0..MaxSpaces,
        token \in {<<>>, <<"s">>, <<"t">>} }

\* The source fixes shardCount at 1; the loop of startShards is written for
\* any count, and is run here for every count up to MaxShardCount in the
\* environment that configures the shards only.
ShardCounts(e) == IF e = Baseline(Unconfigured) THEN 1..MaxShardCount ELSE {1}

InitialState ==
    /\ pc = "config"
    /\ status = "running"
    /\ errorMessage = ""
    /\ PORT = NumUndefined
    /\ METRICS_PORT = NumUndefined
    /\ clients = <<>>
    /\ connectCalls = [k \in ShardIds |-> 0]
    /\ connectState = [k \in ShardIds |-> "none"]
    /\ shards = <<>>
    /\ loggedErrors = {}
    /\ pollerTimers = 0
    /\ ticks = 0
    /\ guildsGauge = 0
    /\ guildCount = 0
    /\ pending = {}
    /\ eventsCounter = [n \in EventNames |-> 0]
    /\ redisCommandsCounter = [n \in CommandNames |-> 0]
    /\ invocations = [n \in EventNames |-> 0]
    /\ listenQueue = {}
    /\ listeners = {}
    /\ response = <<>>

Init ==
    /\ variant \in {"plain", "metrics"}
    /\ env \in Environments
    /\ shardCount \in ShardCounts(env)
    /\ InitialState

\* The environments of the liveness check: required variables valid, the
\* metrics server configured or not.
LiveInit ==
    /\ variant \in {"plain", "metrics"}
    /\ env \in {Baseline(Unconfigured), Baseline(Configured)}
    /\ shardCount \in ShardCounts(env)
    /\ InitialState

----------------------------------------------------------------------------
(* Startup: the module's top-level code, which runs to completion before   *)
(* any callback.                                                           *)

Running == status = "running"

ConfigVars == <<PORT, METRICS_PORT>>
ShardVars == <<clients, connectCalls, connectState, shards>>
PollerVars == <<pollerTimers, ticks, guildsGauge, guildCount, pending>>
CounterVars == <<eventsCounter, redisCommandsCounter, invocations>>
ServerVars == <<listenQueue, listeners>>
Fixed == <<variant, env, shardCount>>

\* throw new Error(message) at top level, before the logger exists.
Throw(message) ==
    /\ status' = "error"
    /\ errorMessage' = message
    /\ UNCHANGED <<pc, ConfigVars>>

\* if (!HOST || !PORT_string || !TOKEN) of the plain variant.
MissingPlain == ~TruthyStr(HOST) \/ ~TruthyStr(PORT_string) \/ ~TruthyStr(TOKEN)

\* Mutant: the check forgets REDIS_PORT.
MissingMetrics_TokenOnly == ~TruthyStr(TOKEN)

\* if (!PORT_string || !TOKEN) of the metrics variant.
MissingMetrics == ~TruthyStr(PORT_string) \/ ~TruthyStr(TOKEN)

\* Lines 3-14: the environment check and the port of the plain variant.
LoadConfigPlain ==
    /\ variant = "plain" /\ pc = "config" /\ Running
    /\ IF MissingPlain THEN Throw("Missing environment variables")
       ELSE IF ParseIntThrows(PORT_string) THEN Throw("Port must be a valid number")
       ELSE /\ PORT' = ParseInt(PORT_string)
            /\ pc' = "gateway"
            /\ UNCHANGED <<status, errorMessage, METRICS_PORT>>
    /\ response' = <<>>
    /\ UNCHANGED <<Fixed, ShardVars, loggedErrors, PollerVars, CounterVars, ServerVars>>

\* Lines 33-56: the environment check and the two ports of the metrics variant.
LoadConfigMetrics ==
    /\ variant = "metrics" /\ pc = "config" /\ Running
    /\ IF MissingMetrics THEN Throw("Missing environment variables")
       ELSE IF ParseIntThrows(PORT_string) THEN Throw("Port must be a valid number")
       ELSE /\ PORT' = ParseInt(PORT_string)
            /\ METRICS_PORT' =
                 IF TruthyStr(METRICS_PORT_string)
                 THEN (IF ParseIntThrows(METRICS_PORT_string) THEN NumUndefined
                       ELSE ParseInt(METRICS_PORT_string))
                 ELSE NumUndefined
            /\ pc' = "shards"
            /\ UNCHANGED <<status, errorMessage>>
    /\ response' = <<>>
    /\ UNCHANGED <<Fixed, ShardVars, loggedErrors, PollerVars, CounterVars, ServerVars>>

\* The configuration object a client is constructed with.
ClientConfig(shardId, hooks) ==
    [shardId |-> shardId, host |-> HOST, port |-> PORT, token |-> TOKEN,
     metricsHooks |-> hooks]

\* Lines 16-24: createGatewayConnection builds the one gateway client of the
\* plain variant from the configuration and connects it.
CreateGatewayConnection ==
    /\ variant = "plain" /\ pc = "gateway" /\ Running
    /\ clients' = Append(clients, ClientConfig(0, FALSE))
    /\ connectCalls' = [connectCalls EXCEPT ![0] = @ + 1]
    /\ connectState' = [connectState EXCEPT ![0] = "pending"]
    /\ pc' = "loop"
    /\ response' = <<>>
    /\ UNCHANGED <<Fixed, status, errorMessage, ConfigVars, shards, loggedErrors,
                   PollerVars, CounterVars, ServerVars>>

\* One iteration of the loop of startShards up to its await: new
\* GatewayClient({... shardId ...}) and shard.connect().
ConstructAndConnect(shardId) ==
    /\ clients' = Append(clients, ClientConfig(shardId, TRUE))
    /\ connectCalls' = [connectCalls EXCEPT ![shardId] = @ + 1]
    /\ connectState' = [connectState EXCEPT ![shardId] = "pending"]

\* Mutant: connect() is not awaited, the handle is pushed at once.
StartShards_NoAwait ==
    /\ variant = "metrics" /\ pc = "shards" /\ Running
    /\ ConstructAndConnect(0)
    /\ shards' = Append(shards, 0)
    /\ pc' = "poller"
    /\ response' = <<>>
    /\ UNCHANGED <<Fixed, status, errorMessage, ConfigVars, loggedErrors,
                   PollerVars, CounterVars, ServerVars>>

\* Line 145: startShards(TOKEN) runs to the first await and is not awaited.
StartShards ==
    /\ variant = "metrics" /\ pc = "shards" /\ Running
    /\ IF 0 < shardCount THEN ConstructAndConnect(0) /\ UNCHANGED shards
       ELSE UNCHANGED ShardVars
    /\ pc' = "poller"
    /\ response' = <<>>
    /\ UNCHANGED <<Fixed, status, errorMessage, ConfigVars, loggedErrors,
                   PollerVars, CounterVars, ServerVars>>

\* Mutant: the run does not arm the next timer.
Every15Seconds_NoReschedule(timersLeft) ==
    /\ pending' = {shards[i] : i \in 1..Len(shards)}
    /\ guildCount' = 0
    /\ guildsGauge' = 0
    /\ pollerTimers' = timersLeft
    /\ ticks' = IF ticks < MaxTicks THEN ticks + 1 ELSE ticks

\* The body of every15Seconds: guildCount starts at 0; forEach starts one
\* getGuildCount() per handle in shards, and each callback suspends at its
\* await, so no addition has run when guildsGauge.set(guildCount) is reached;
\* then setTimeout arms the next run.
Every15Seconds(timersLeft) ==
    LET started == {shards[i] : i \in 1..Len(shards)}
        atSet == 0
    IN  /\ pending' = started
        /\ guildCount' = atSet
        /\ guildsGauge' = atSet
        /\ pollerTimers' = timersLeft + 1
        /\ ticks' = IF ticks < MaxTicks THEN ticks + 1 ELSE ticks

\* Line 164: the first run of every15Seconds, called from the top level.
FirstRun ==
    /\ variant = "metrics" /\ pc = "poller" /\ Running
    /\ Every15Seconds(pollerTimers)
    /\ pc' = "metrics"
    /\ response' = <<>>
    /\ UNCHANGED <<Fixed, status, errorMessage, ConfigVars, ShardVars, loggedErrors,
                   CounterVars, ServerVars>>

\* if (METRICS_PORT && METRICS_HOST)
MetricsEnabled == TruthyNum(METRICS_PORT) /\ TruthyStr(METRICS_HOST)

\* The two calls of lines 196 and 197: listen(port), which returns a promise
\* nothing handles, and listen(port, host, callback).
ListenCall(callback) ==
    [host |-> IF callback THEN METRICS_HOST ELSE defaultAddress, callback |-> callback]

ListenCalls == {ListenCall(FALSE), ListenCall(TRUE)}

\* Lines 166-206: the metrics server is created and asked to listen, twice.
StartMetricsServer ==
    /\ variant = "metrics" /\ pc = "metrics" /\ Running
    /\ listenQueue' = IF MetricsEnabled THEN ListenCalls ELSE {}
    /\ pc' = "loop"
    /\ response' = <<>>
    /\ UNCHANGED <<Fixed, status, errorMessage, ConfigVars, ShardVars, loggedErrors,
                   PollerVars, CounterVars, listeners>>

----------------------------------------------------------------------------
(* The event loop: callbacks that run after the top-level code.            *)

InLoop == variant = "metrics" /\ pc = "loop" /\ Running

\* An error that nothing in the program handles (a rejected promise that was
\* not awaited) reaches the runtime and, through it, the logger.
Unhandled(origin) ==
    /\ loggedErrors' =
         IF handleExceptions THEN loggedErrors \cup {origin} ELSE loggedErrors
    /\ status' = UncaughtOutcome

\* Lines 141-143 and the loop head: shard.connect() of shard k has resolved;
\* the handle is pushed and the next iteration, if any, constructs and
\* connects the next shard.
ConnectResolve(k) ==
    /\ InLoop
    /\ connectState[k] = "pending"
    /\ shards' = Append(shards, k)
    /\ IF k + 1 < shardCount
       THEN /\ clients' = Append(clients, ClientConfig(k + 1, TRUE))
            /\ connectCalls' = [connectCalls EXCEPT ![k + 1] = @ + 1]
            /\ connectState' = [connectState EXCEPT ![k] = "resolved", ![k + 1] = "pending"]
       ELSE /\ connectState' = [connectState EXCEPT ![k] = "resolved"]
            /\ UNCHANGED <<clients, connectCalls>>
    /\ response' = <<>>
    /\ UNCHANGED <<Fixed, pc, status, errorMessage, ConfigVars, loggedErrors,
                   PollerVars, CounterVars, ServerVars>>

\* shard.connect() of shard k has rejected: the await throws inside
\* startShards, whose promise line 145 drops.
ConnectReject(k) ==
    /\ InLoop
    /\ connectState[k] = "pending"
    /\ connectState' = [connectState EXCEPT ![k] = "rejected"]
    /\ Unhandled("startShards")
    /\ response' = <<>>
    /\ UNCHANGED <<Fixed, pc, errorMessage, ConfigVars, clients, connectCalls, shards,
                   PollerVars, CounterVars, ServerVars>>

\* The timer of line 160 fires and every15Seconds runs again.
PollerTick ==
    /\ InLoop
    /\ pollerTimers > 0
    /\ Every15Seconds(pollerTimers - 1)
    /\ response' = <<>>
    /\ UNCHANGED <<Fixed, pc, status, errorMessage, ConfigVars, ShardVars, loggedErrors,
                   CounterVars, ServerVars>>

\* Lines 152-153: a getGuildCount() of the latest run has resolved with g and
\* the callback resumes: guildCount += shardGuildCount.
QueryResolve(shard, g) ==
    /\ InLoop
    /\ shard \in pending
    /\ pending' = pending \ {shard}
    /\ guildCount' = guildCount + g
    /\ response' = <<>>
    /\ UNCHANGED <<Fixed, pc, status, errorMessage, ConfigVars, ShardVars, loggedErrors,
                   pollerTimers, ticks, guildsGauge, CounterVars, ServerVars>>

\* Mutant: the gateway-event callback increments the redis-commands counter.
HandleGatewayEvent_WrongCounter(name) ==
    /\ redisCommandsCounter' = [n \in CommandNames |-> redisCommandsCounter[n] + 1]
    /\ UNCHANGED eventsCounter

\* Lines 108-110: handleGatewayEvent.
HandleGatewayEvent(name) ==
    /\ eventsCounter' = [eventsCounter EXCEPT ![name] = @ + 1]
    /\ UNCHANGED redisCommandsCounter

\* Lines 112-114: handleRedisCommand.
HandleRedisCommand(name) ==
    /\ redisCommandsCounter' = [redisCommandsCounter EXCEPT ![name] = @ + 1]
    /\ UNCHANGED eventsCounter

RECURSIVE SumOver(_, _)
SumOver(f, S) ==
    IF S = {} THEN 0
    ELSE LET x == CHOOSE y \in S : TRUE IN f[x] + SumOver(f, S \ {x})

Callbacks == SumOver(eventsCounter, EventNames) + SumOver(redisCommandsCounter, CommandNames)

\* A client that was given the metrics hooks and asked to connect.
Hooked == \E i \in 1..Len(clients) :
              clients[i].metricsHooks /\ connectCalls[clients[i].shardId] > 0

\* The library reports a gateway event through metrics.onGatewayEvent.
GatewayEvent(name) ==
    /\ InLoop /\ Hooked
    /\ Callbacks < MaxEvents
    /\ invocations' = [invocations EXCEPT ![name] = @ + 1]
    /\ HandleGatewayEvent(name)
    /\ response' = <<>>
    /\ UNCHANGED <<Fixed, pc, status, errorMessage, ConfigVars, ShardVars, loggedErrors,
                   PollerVars, ServerVars>>

\* The library reports a redis command through metrics.onRedisCommand.
RedisCommand(name) ==
    /\ InLoop /\ Hooked
    /\ Callbacks < MaxEvents
    /\ HandleRedisCommand(name)
    /\ response' = <<>>
    /\ UNCHANGED <<Fixed, pc, status, errorMessage, ConfigVars, ShardVars, loggedErrors,
                   PollerVars, invocations, ServerVars>>

\* Lines 196-205: one of the two listen calls is carried out.  A server that
\* is already listening refuses the call; which of the two calls is carried
\* out first is left to the library.  A refused call with a callback runs
\* console.error and process.exit(1); a refused call without one rejects its
\* promise, which nothing handles.
ListenSettle(callback) ==
    LET call == ListenCall(callback)
    IN  /\ InLoop
        /\ call \in listenQueue
        /\ listenQueue' = listenQueue \ {call}
        /\ IF listeners = {}
           THEN /\ listeners' = {[host |-> call.host, port |-> METRICS_PORT.n]}
                /\ UNCHANGED <<status, loggedErrors>>
           ELSE /\ UNCHANGED listeners
                /\ IF call.callback
                   THEN status' = "exited" /\ UNCHANGED loggedErrors
                   ELSE Unhandled("listen")
        /\ response' = <<>>
        /\ UNCHANGED <<Fixed, pc, errorMessage, ConfigVars, ShardVars, PollerVars,
                       CounterVars>>

\* promClient.register.metrics(): the exposition of the three instruments.
Exposition ==
    [guild_count |-> guildsGauge,
     gateway_events_count |-> eventsCounter,
     redis_commands_count |-> redisCommandsCounter]

NewReply == [sent |-> FALSE, code |-> 200, type |-> "", text |-> "", metrics |-> {}]

\* Lines 175-182: the preHandler of GET /metrics.
PreHandler(authorization, reply) ==
    IF StrippedAuthorization(authorization) # METRICS_AUTH
    THEN [reply EXCEPT !.sent = TRUE, !.code = 401, !.text = "Unauthorized"]
    ELSE reply

\* Lines 184-186: the handler of GET /metrics.
Handler(reply) ==
    [reply EXCEPT !.sent = TRUE, !.type = "text/plain", !.metrics = {Exposition}]

\* The route: the handler runs only when the preHandler has not sent the reply.
Route(authorization) ==
    LET r == PreHandler(authorization, NewReply)
    IN  IF r.sent THEN r ELSE Handler(r)

\* A client sends GET /metrics with the given Authorization header (or none).
HttpRequest(authorization) ==
    /\ InLoop
    /\ listeners # {}
    /\ response' = <<[authorization |-> authorization, reply |-> Route(authorization)]>>
    /\ UNCHANGED <<Fixed, pc, status, errorMessage, ConfigVars, ShardVars, loggedErrors,
                   PollerVars, CounterVars, ServerVars>>

----------------------------------------------------------------------------

Next ==
    \/ LoadConfigPlain
    \/ CreateGatewayConnection
    \/ LoadConfigMetrics
    \/ StartShards
    \/ FirstRun
    \/ StartMetricsServer
    \/ \E k \in ShardIds : ConnectResolve(k)
    \/ \E k \in ShardIds : ConnectReject(k)
    \/ PollerTick
    \/ \E shard \in ShardIds, g \in 0..MaxGuilds : QueryResolve(shard, g)
    \/ \E name \in EventNames : GatewayEvent(name)
    \/ \E name \in CommandNames : RedisCommand(name)
    \/ \E callback \in BOOLEAN : ListenSettle(callback)
    \/ \E authorization \in Headers : HttpRequest(authorization)

Spec == Init /\ [][Next]_vars

\* The timer of the poller fires whenever it is armed.
LiveSpec == LiveInit /\ [][Next]_vars /\ WF_vars(PollerTick)

----------------------------------------------------------------------------
(* Vocabulary of the properties.  These read the environment directly and  *)
(* use none of the operators that model the program's checks.              *)

Absent(s) == s = undefined \/ Len(s) = 0

\* A value that is set and holds no decimal digit at all.
NonNumeric(s) == ~Absent(s) /\ \A i \in 1..Len(s) : ~IsDigit(s[i])

\* A value that is set and holds decimal digits only.
Numeral(s) == ~Absent(s) /\ \A i \in 1..Len(s) : IsDigit(s[i])

RequiredAbsent ==
    \/ variant = "metrics" /\ (Absent(env.REDIS_PORT) \/ Absent(env.DISCORD_TOKEN))
    \/ variant = "plain" /\ (Absent(env.REDIS_HOST) \/ Absent(env.REDIS_PORT)
                             \/ Absent(env.DISCORD_TOKEN))

NothingStarted ==
    /\ clients = <<>>
    /\ \A k \in ShardIds : connectCalls[k] = 0 /\ connectState[k] = "none"
    /\ ticks = 0 /\ pollerTimers = 0
    /\ listenQueue = {} /\ listeners = {}

\* C1: in an environment where a required variable is absent or empty,
\* startup never gets past the configuration check, the only state it can end
\* in is the error "Missing environment variables", and no client is
\* constructed, no connect() is called, no poller run happens and no listener
\* is started.
C1_MissingRequiredFailsStartup ==
    RequiredAbsent =>
        /\ NothingStarted
        /\ pc = "config"
        /\ status \in {"running", "error"}
        /\ (status = "running" => ENABLED (LoadConfigPlain \/ LoadConfigMetrics))
        /\ (status = "error" => errorMessage = "Missing environment variables")

\* Startup has failed on a missing REDIS_PORT although the metrics server was
\* configured.
C1_Witness ==
    /\ variant = "metrics" /\ Absent(env.REDIS_PORT) /\ ~Absent(env.DISCORD_TOKEN)
    /\ ~Absent(env.METRICS_HOST) /\ ~Absent(env.METRICS_PORT)
    /\ status = "error"

----------------------------------------------------------------------------

\* The header with a case-insensitive "Bearer" prefix (and the white space
\* after it) stripped.
StripBearerPrefix(h) ==
    IF Len(h) >= 6 /\ LowerCase(SubSeq(h, 1, 6)) = <<"b", "e", "a", "r", "e", "r">>
    THEN SkipWhite(Rest(h, 7))
    ELSE h

\* The request carries the configured credential.
Credentialed(h) ==
    /\ h # undefined
    /\ env.METRICS_AUTH # undefined
    /\ StripBearerPrefix(h) = env.METRICS_AUTH

\* C2: a request to /metrics is answered 200 with the exposition exactly when
\* its Authorization header, stripped of a case-insensitive Bearer prefix,
\* equals the configured credential; every other request (wrong or missing
\* credential, credential configured or not) is answered 401 "Unauthorized"
\* without the exposition.
C2_BearerCredentialDecides ==
    \A i \in 1..Len(response) :
        LET h == response[i].authorization
            r == response[i].reply
        IN  IF Credentialed(h)
            THEN r.code = 200 /\ r.metrics = {Exposition}
            ELSE r.code = 401 /\ r.text = "Unauthorized" /\ r.metrics = {}

----------------------------------------------------------------------------

OthersPresent ==
    /\ ~Absent(env.DISCORD_TOKEN)
    /\ variant = "plain" => ~Absent(env.REDIS_HOST)

\* C3: with REDIS_PORT set to a non-numeric value and the other required
\* variables present, startup stops at the configuration check with the error
\* "Port must be a valid number", and no client is constructed and no
\* connect() is called.
C3_NonNumericPortFailsStartup ==
    (NonNumeric(env.REDIS_PORT) /\ OthersPresent) =>
        /\ pc = "config"
        /\ clients = <<>>
        /\ \A k \in ShardIds : connectCalls[k] = 0
        /\ (status # "running" => errorMessage = "Port must be a valid number")

----------------------------------------------------------------------------

RequiredValid ==
    Numeral(env.REDIS_PORT) /\ ~Absent(env.DISCORD_TOKEN)

----------------------------------------------------------------------------

MetricsConfigured == ~Absent(env.METRICS_HOST) /\ Numeral(env.METRICS_PORT)

\* C5: with METRICS_HOST and a numeric METRICS_PORT configured the process
\* never takes the exit(1) branch and the server is bound at most once, on
\* that host and port; with either absent no listener is ever bound, while
\* shard 0 is asked to connect.
C5_ListenerFollowsConfiguration ==
    (variant = "metrics" /\ RequiredValid) =>
        IF MetricsConfigured
        THEN /\ status # "exited"
             /\ Cardinality(listeners) <= 1
             /\ \A l \in listeners :
                    l.host = env.METRICS_HOST /\ l.port = DecimalValue(env.METRICS_PORT)
        ELSE (Absent(env.METRICS_HOST) \/ Absent(env.METRICS_PORT)) =>
                /\ listeners = {} /\ listenQueue = {}
                /\ (pc = "loop" => connectCalls[0] = 1)

----------------------------------------------------------------------------

Expositions == UNION {response[i].reply.metrics : i \in 1..Len(response)}

\* C6: the gateway-events counter of each name equals the number of callback
\* invocations with that name (each invocation adds exactly 1), a scrape
\* reports exactly that number for each name, and no step decreases the
\* counter.
C6_EventsCounterCountsInvocations ==
    /\ [](/\ \A n \in EventNames : eventsCounter[n] = invocations[n]
          /\ \A m \in Expositions :
                \A n \in EventNames : m.gateway_events_count[n] = invocations[n])
    /\ [][\A n \in EventNames : eventsCounter'[n] >= eventsCounter[n]]_vars

\* A scrape that reports one event of each name.
C6_Witness ==
    \E m \in Expositions : \A n \in EventNames : m.gateway_events_count[n] = 1

----------------------------------------------------------------------------

\* Every variable of the environment that the program reads is set and valid.
ValidEnvironment ==
    /\ ~Absent(env.REDIS_HOST)
    /\ Numeral(env.REDIS_PORT)
    /\ ~Absent(env.DISCORD_TOKEN)

\* C7: in a valid environment, once the queries of a poller run have all
\* returned, the gauge the run wrote equals the sum of the guild counts they
\* returned.
C7_GaugeIsSumOfGuildCounts ==
    (variant = "metrics" /\ ValidEnvironment /\ ticks > 0 /\ pending = {}) =>
        guildsGauge = guildCount

----------------------------------------------------------------------------

InFlight == {k \in ShardIds : connectState[k] = "pending"}

Iota(n) == [i \in 1..n |-> i - 1]

\* C8: in the metrics variant at most one connect() is in flight, clients are
\* constructed in shard-id order and each only after every lower shard's
\* connect() has completed, connect() is called once per constructed client,
\* the collection holds the handles of shards 0..m-1 in order, each appended
\* after its own connect() completed, and no step removes or reorders a
\* handle.
C8_ShardsStartSequentially ==
    /\ [](variant = "metrics" =>
            /\ Cardinality(InFlight) <= 1
            /\ Len(clients) <= shardCount
            /\ \A i \in 1..Len(clients) :
                  /\ clients[i].shardId = i - 1
                  /\ connectCalls[i - 1] = 1
                  /\ \A j \in 0..(i - 2) : connectState[j] = "resolved"
            /\ \A k \in ShardIds : k >= Len(clients) => connectCalls[k] = 0
            /\ shards = Iota(Len(shards))
            /\ Len(shards) <= shardCount
            /\ \A i \in 1..Len(shards) : connectState[shards[i]] = "resolved")
    /\ [][Len(shards') >= Len(shards) /\ SubSeq(shards', 1, Len(shards)) = shards]_vars

\* Two shards connected one after the other, both handles in the collection.
C8_Witness == shardCount = 2 /\ shards = <<0, 1>>

----------------------------------------------------------------------------

Failed == {k \in ShardIds : connectState[k] = "rejected"}

\* After connect() of shard k failed: it was called once, no later shard was
\* constructed, no connect() is in flight, and the collection holds exactly
\* the handles of the shards below k.
NoRetryNoRollback ==
    \A k \in Failed :
        /\ connectCalls[k] = 1
        /\ \A i \in 1..Len(clients) : clients[i].shardId <= k
        /\ \A j \in ShardIds : j > k => connectCalls[j] = 0
        /\ InFlight = {}
        /\ shards = Iota(k)

\* C9 as stated: in a valid environment, after a failed connect() there is
\* no retry, no later shard, no handle for the failed shard, the earlier
\* handles stay, and the process is in a crashed state.
C9_ConnectFailureCrashes ==
    ValidEnvironment =>
        /\ NoRetryNoRollback
        /\ (Failed # {} => status = "crashed")

\* C9 as amended: after a failed connect() there is no retry, no later shard,
\* no handle for the failed shard and the earlier handles stay; the process
\* is not crashed by it: the error has reached the logger, and as long as the
\* process runs the poller is armed and the server's listeners remain.
C9_ConnectFailureIsLoggedNotFatal ==
    /\ [](/\ NoRetryNoRollback
          /\ (Failed # {} =>
                /\ status # "crashed"
                /\ "startShards" \in loggedErrors
                /\ (Running => pollerTimers = 1)))
    /\ [][(Failed # {} /\ Running') => (Failed' = Failed /\ listeners \subseteq listeners')]_vars

\* The metrics server answers a scrape after shard 0 failed to connect.
C9_Witness ==
    /\ connectState[0] = "rejected" /\ Running
    /\ \E i \in 1..Len(response) : response[i].reply.code = 200

----------------------------------------------------------------------------

\* C10: at most one poller timer is pending, and exactly one from the first
\* run on; the first run happens in the top-level code, while shard 0 is
\* still connecting and the collection is empty; a run is possible whenever
\* the process is in its event loop, whatever queries are outstanding; and
\* while the process runs, every run is followed by another.
C10_PollerRunsForProcessLifetime ==
    /\ [](variant = "metrics" =>
            /\ pollerTimers <= 1
            /\ (pc \in {"metrics", "loop"} => ticks >= 1 /\ pollerTimers = 1)
            /\ (InLoop => ENABLED PollerTick))
    /\ [][(ticks = 0 /\ ticks' = 1) =>
             (pc = "poller" /\ shards = <<>> /\ connectState[0] = "pending")]_vars
    /\ \A n \in 0..(MaxTicks - 1) :
          (InLoop /\ ticks = n) ~> (ticks > n \/ ~Running)

\* The poller has kept running while shard 0 still had not connected.
C10_Witness ==
    /\ InLoop /\ ticks = MaxTicks
    /\ shards = <<>> /\ connectState[0] = "pending"

============================================================================
